---- MODULE Spec2Model ----
(***************************************************************************)
(* DS.Snapshot (packages/ember-data/lib/system/snapshot.js): a point-in-   *)
(* time view of a live record.  Attributes are captured eagerly by the     *)
(* constructor; belongsTo/hasMany are resolved lazily on first access and  *)
(* cached per relationship name and per mode (full / identifier-only).     *)
(*                                                                         *)
(* The live record graph (DS.Model / InternalModel / Relationship) is not  *)
(* part of snapshot.js; it is modelled from the collaborator interface the *)
(* specification lists, and changes through its own actions.               *)
(***************************************************************************)
EXTENDS Integers, Sequences, FiniteSets, TLC

(***************************************************************************)
(* Bounds of the model.                                                    *)
(***************************************************************************)
NumRecords == 3      \* live records 1..NumRecords
MaxSnapshots == 3    \* Snapshot objects alive at once
MaxMutations == 2    \* live-record mutations in one behaviour

(***************************************************************************)
(* JavaScript values.  Every value carries a tag so that values of         *)
(* different JavaScript types are comparable and unequal.                  *)
(***************************************************************************)
undefined == [t |-> "undefined"]
null == [t |-> "null"]
Str(s) == [t |-> "string", v |-> s]
Bool(b) == [t |-> "boolean", v |-> b]
Id(n) == [t |-> "id", v |-> n]                 \* a record id
SnapshotRef(i) == [t |-> "snapshot", v |-> i]  \* reference to snapshots[i]
Array(q) == [t |-> "array", v |-> q]           \* a JavaScript array
LocalRef == [t |-> "object", v |-> 0]          \* reference to the object held in callerObject
AttributesRef(i) == [t |-> "object", v |-> i]  \* reference to snapshots[i]._attributes, i > 0
PairRef(i, k) == [t |-> "pair", v |-> i, k |-> k]  \* i = 0: pair held in callerPairs
                                                   \* i > 0: snapshots[i]._changedAttributes[k]

\* new EmptyObject(): an object with no keys and no prototype
EmptyObject == [k \in {} |-> undefined]

\* obj[k] = v
Put(obj, k, v) == [x \in (DOMAIN obj) \cup {k} |-> IF x = k THEN v ELSE obj[x]]

\* delete obj[k]
Delete(obj, k) == [x \in (DOMAIN obj) \ {k} |-> obj[x]]

(***************************************************************************)
(* The schema of the live records: record 1 is a post, the others are      *)
(* comments.                                                               *)
(***************************************************************************)
Records == 1..NumRecords
None == 0     \* no inverseRecord

typeOf(r) == IF r = 1 THEN "Post" ELSE "Comment"

typeModelName(type) == IF type = "Post" THEN "post" ELSE "comment"

attributeNames(type) == IF type = "Post" THEN {"title", "body"} ELSE {"body"}

relationshipsByName(type) ==
  IF type = "Post"
  THEN [k \in {"author", "comments"} |-> IF k = "author" THEN "belongsTo" ELSE "hasMany"]
  ELSE [k \in {"post"} |-> "belongsTo"]

\* the key names callers pass to attr, belongsTo, hasMany and get
KeyNames == {"id", "title", "body", "author", "comments", "post", "isDeleted"}

\* the key names callers pass to belongsTo and hasMany: the relationship
\* names of both types and a name that is no relationship of either
RelationshipKeys == {"author", "comments", "post", "title"}

\* the values a live attribute is set to
AttributeValues == {Str("A"), Str("B"), null}

\* the keys and the value a caller writes into an object a Snapshot returned
CallerKeys == {"title", "extra"}
CallerValue == Str("X")

VARIABLES
  liveId,         \* liveId[r]: internalModel.id, null for a record not saved yet
  liveDeleted,    \* liveDeleted[r]: record.isDeleted()
  liveData,       \* liveData[r][a]: the canonical value of attribute a
  liveChanged,    \* liveChanged[r]: attribute name -> value set since the last rollback
  liveRelationships,  \* liveRelationships[r][name]: [hasData, inverseRecord, members]
  mutations,      \* number of live-record mutations so far
  snapshots,      \* the Snapshot objects, in construction order
  resolvedFrom,   \* history: the live relationship state each cache entry was resolved from
  call,           \* the latest Snapshot call and what it returned
  callerObject,   \* the object the latest attributes()/changedAttributes() call allocated
  callerPairs     \* the [old, new] arrays the latest changedAttributes() call allocated

live == <<liveId, liveDeleted, liveData, liveChanged, liveRelationships>>
caller == <<call, callerObject, callerPairs>>
vars == <<liveId, liveDeleted, liveData, liveChanged, liveRelationships, mutations,
          snapshots, resolvedFrom, call, callerObject, callerPairs>>

NoCall == [op |-> "none"]

(***************************************************************************)
(* The live record: the collaborators the Snapshot reads.                  *)
(***************************************************************************)
\* Ember.get(record, keyName)
GetRecord(r, keyName) ==
  IF keyName = "id" THEN liveId[r]
  ELSE IF keyName \in attributeNames(typeOf(r))
       THEN IF keyName \in DOMAIN liveChanged[r] THEN liveChanged[r][keyName]
            ELSE liveData[r][keyName]
  ELSE IF keyName = "isDeleted" THEN Bool(liveDeleted[r])
  ELSE undefined

\* record.changedAttributes(): a new object, one new [old, new] array per changed attribute
RecordChangedAttributes(r) ==
  [k \in DOMAIN liveChanged[r] |-> <<liveData[r][k], liveChanged[r][k]>>]

\* internalModel._relationships.get(keyName): the descriptor, or undefined
RelationshipsGet(r, keyName) ==
  IF keyName \in DOMAIN relationshipsByName(typeOf(r))
  THEN [relationshipMeta |-> [kind |-> relationshipsByName(typeOf(r))[keyName]],
        hasData |-> liveRelationships[r][keyName].hasData,
        inverseRecord |-> liveRelationships[r][keyName].inverseRecord,
        members |-> liveRelationships[r][keyName].members]
  ELSE undefined

\* no relationship of the post is loaded; each comment's post is the post
UnloadedGraph ==
  [r \in Records |->
     [k \in DOMAIN relationshipsByName(typeOf(r)) |->
        IF k = "post"
        THEN [hasData |-> r # NumRecords, inverseRecord |-> 1, members |-> <<>>]
        ELSE [hasData |-> FALSE, inverseRecord |-> None, members |-> <<>>]]]

\* a loaded, cyclic graph: the post's author is the record not saved yet, its
\* comments are all the other records, and each comment's post is the post
LoadedGraph ==
  [r \in Records |->
     [k \in DOMAIN relationshipsByName(typeOf(r)) |->
        IF k = "author"
        THEN [hasData |-> TRUE, inverseRecord |-> NumRecords, members |-> <<>>]
        ELSE IF k = "comments"
        THEN [hasData |-> TRUE, inverseRecord |-> None,
              members |-> [n \in 1..(NumRecords - 1) |-> n + 1]]
        ELSE [hasData |-> r # NumRecords, inverseRecord |-> 1, members |-> <<>>]]]

InitLive ==
  /\ liveId = [r \in Records |-> IF r = NumRecords THEN null ELSE Id(r)]
  /\ liveDeleted = [r \in Records |-> FALSE]
  /\ liveData = [r \in Records |->
                   [a \in attributeNames(typeOf(r)) |->
                      IF a = "title" THEN Str("A") ELSE undefined]]
  /\ liveChanged = [r \in Records |-> EmptyObject]
  /\ liveRelationships \in {UnloadedGraph, LoadedGraph}
  /\ mutations = 0

\* the records a relationship currently points at
Related(r, keyName) ==
  LET rel == liveRelationships[r][keyName]
  IN ({rel.inverseRecord} \ {None}) \cup {rel.members[n] : n \in 1..Len(rel.members)}

\* what a resolution of relationship keyName of record r reads from the live graph
Observed(r, keyName) ==
  [hasData |-> liveRelationships[r][keyName].hasData,
   inverseRecord |-> liveRelationships[r][keyName].inverseRecord,
   members |-> liveRelationships[r][keyName].members,
   deleted |-> {m \in Related(r, keyName) : liveDeleted[m]},
   ids |-> [m \in Related(r, keyName) |-> liveId[m]]]

(***************************************************************************)
(* Snapshot: the constructor.                                              *)
(***************************************************************************)
\* variant of Snapshot: the attributes are captured from the canonical data
SnapshotOfData(internalModel) ==
  [ _attributes |-> liveData[internalModel],
    _belongsToRelationships |-> EmptyObject,
    _belongsToIds |-> EmptyObject,
    _hasManyRelationships |-> EmptyObject,
    _hasManyIds |-> EmptyObject,
    record |-> internalModel,
    id |-> liveId[internalModel],
    _internalModel |-> internalModel,
    type |-> typeOf(internalModel),
    modelName |-> typeModelName(typeOf(internalModel)),
    _changedAttributes |-> RecordChangedAttributes(internalModel) ]

\* variant of Snapshot: modelName is taken from the type itself
SnapshotTypeName(internalModel) ==
  [ _attributes |-> [keyName \in attributeNames(typeOf(internalModel)) |->
                       GetRecord(internalModel, keyName)],
    _belongsToRelationships |-> EmptyObject,
    _belongsToIds |-> EmptyObject,
    _hasManyRelationships |-> EmptyObject,
    _hasManyIds |-> EmptyObject,
    record |-> internalModel,
    id |-> liveId[internalModel],
    _internalModel |-> internalModel,
    type |-> typeOf(internalModel),
    modelName |-> typeOf(internalModel),
    _changedAttributes |-> RecordChangedAttributes(internalModel) ]


Snapshot(internalModel) ==
  [ _attributes |-> [keyName \in attributeNames(typeOf(internalModel)) |->
                       GetRecord(internalModel, keyName)],
    _belongsToRelationships |-> EmptyObject,
    _belongsToIds |-> EmptyObject,
    _hasManyRelationships |-> EmptyObject,
    _hasManyIds |-> EmptyObject,
    record |-> internalModel,
    id |-> liveId[internalModel],
    _internalModel |-> internalModel,
    type |-> typeOf(internalModel),
    modelName |-> typeModelName(typeOf(internalModel)),
    _changedAttributes |-> RecordChangedAttributes(internalModel) ]

\* variant of createSnapshot: the belongsTo relationships of the record are
\* resolved in identifier-only mode as the Snapshot is constructed
createSnapshotResolved(internalModel) ==
  [Snapshot(internalModel) EXCEPT
     !._belongsToIds =
        [k \in {n \in DOMAIN relationshipsByName(typeOf(internalModel)) :
                  relationshipsByName(typeOf(internalModel))[n] = "belongsTo"} |->
           LET rel == liveRelationships[internalModel][k]
           IN IF ~rel.hasData THEN undefined
              ELSE IF rel.inverseRecord # None /\ ~liveDeleted[rel.inverseRecord]
              THEN liveId[rel.inverseRecord] ELSE null]]

\* internalModel.createSnapshot()
createSnapshot(internalModel) == Snapshot(internalModel)

\* the outcome of a call: the value returned or an Ember.Error thrown, the
\* Snapshot after the call and the child Snapshots the call constructed
Return(this, value, created, cached) ==
  [threw |-> FALSE, result |-> value, this |-> this, created |-> created, cached |-> cached]

Throw(this) ==
  [threw |-> TRUE, result |-> undefined, this |-> this, created |-> <<>>, cached |-> FALSE]

(***************************************************************************)
(* Snapshot.prototype.attr, attributes, changedAttributes.                 *)
(***************************************************************************)
\* variant of In: obj[keyName] !== undefined
InDefined(keyName, obj) == keyName \in DOMAIN obj /\ obj[keyName] # undefined

\* keyName in obj
In(keyName, obj) == keyName \in DOMAIN obj

\* variant of attr: reads the attribute from the live record
attrOfRecord(i, keyName) ==
  LET this == snapshots[i]
  IN IF In(keyName, this._attributes)
     THEN Return(this, GetRecord(this.record, keyName), <<>>, FALSE)
     ELSE Throw(this)

\* variant of attr: a plain property read, undefined for a missing key
attrUnchecked(i, keyName) ==
  LET this == snapshots[i]
  IN Return(this, IF In(keyName, this._attributes) THEN this._attributes[keyName]
                  ELSE undefined, <<>>, FALSE)

attr(i, keyName) ==
  LET this == snapshots[i]
  IN IF In(keyName, this._attributes)
     THEN Return(this, this._attributes[keyName], <<>>, FALSE)
     ELSE Throw(this)

\* Ember.copy(this._attributes): a new object with the same keys and values.
\* ref is the reference returned, object the contents of the object allocated.
attributes(i) ==
  [ref |-> LocalRef, object |-> snapshots[i]._attributes]

\* variant of changedAttributes: the new object holds the stored pairs themselves
changedAttributesShared(i) ==
  LET changedAttributeKeys == DOMAIN snapshots[i]._changedAttributes
  IN [ref |-> LocalRef,
      object |-> [key \in changedAttributeKeys |-> PairRef(i, key)],
      pairs |-> EmptyObject]

\* a new object holding, per changed attribute, a new copy of the stored pair
changedAttributes(i) ==
  LET changedAttributeKeys == DOMAIN snapshots[i]._changedAttributes
  IN [ref |-> LocalRef,
      object |-> [key \in changedAttributeKeys |-> PairRef(0, key)],
      pairs |-> [key \in changedAttributeKeys |-> snapshots[i]._changedAttributes[key]]]

(***************************************************************************)
(* Snapshot.prototype.belongsTo.                                           *)
(***************************************************************************)
\* variant of IsKind: the kind of the descriptor is not compared
IsRelationship(relationship, kind) == relationship # undefined

\* relationship && relationship.relationshipMeta.kind === kind
IsKind(relationship, kind) ==
  relationship # undefined /\ relationship.relationshipMeta.kind = kind

\* variant of belongsToResult: isDeleted() of the related record is not asked
belongsToResultOfDeleted(hasData, inverseRecord, id, child) ==
  IF hasData
  THEN IF inverseRecord # None
       THEN IF id THEN GetRecord(inverseRecord, "id") ELSE child
       ELSE null
  ELSE undefined

\* variant of belongsToResult: isDeleted() is asked in full mode only
belongsToResultIdOfDeleted(hasData, inverseRecord, id, child) ==
  IF hasData
  THEN IF id
       THEN IF inverseRecord # None THEN GetRecord(inverseRecord, "id") ELSE null
       ELSE IF inverseRecord # None /\ ~liveDeleted[inverseRecord] THEN child ELSE null
  ELSE undefined

\* the result computed from hasData and inverseRecord; child is the reference
\* to the Snapshot inverseRecord.createSnapshot() constructs
belongsToResult(hasData, inverseRecord, id, child) ==
  IF hasData
  THEN IF inverseRecord # None /\ ~liveDeleted[inverseRecord]
       THEN IF id THEN GetRecord(inverseRecord, "id") ELSE child
       ELSE null
  ELSE undefined

\* variant of belongsTo: the result is stored in the caches of both modes
belongsToBothModes(i, keyName, id) ==
  LET this == snapshots[i]
      relationship == RelationshipsGet(this._internalModel, keyName)
  IN IF id /\ In(keyName, this._belongsToIds)
     THEN Return(this, this._belongsToIds[keyName], <<>>, TRUE)
     ELSE IF ~id /\ In(keyName, this._belongsToRelationships)
     THEN Return(this, this._belongsToRelationships[keyName], <<>>, TRUE)
     ELSE IF ~IsKind(relationship, "belongsTo")
     THEN Throw(this)
     ELSE
       LET hasData == relationship.hasData
           inverseRecord == relationship.inverseRecord
           result == belongsToResult(hasData, inverseRecord, id,
                                     SnapshotRef(Len(snapshots) + 1))
           created == IF result = SnapshotRef(Len(snapshots) + 1)
                      THEN <<createSnapshot(inverseRecord)>> ELSE <<>>
       IN Return([this EXCEPT !._belongsToIds = Put(@, keyName, result),
                              !._belongsToRelationships = Put(@, keyName, result)],
                 result, created, FALSE)

belongsTo(i, keyName, id) ==
  LET this == snapshots[i]
      relationship == RelationshipsGet(this._internalModel, keyName)
  IN IF id /\ In(keyName, this._belongsToIds)
     THEN Return(this, this._belongsToIds[keyName], <<>>, TRUE)
     ELSE IF ~id /\ In(keyName, this._belongsToRelationships)
     THEN Return(this, this._belongsToRelationships[keyName], <<>>, TRUE)
     ELSE IF ~IsKind(relationship, "belongsTo")
     THEN Throw(this)
     ELSE
       LET hasData == relationship.hasData
           inverseRecord == relationship.inverseRecord
           result == belongsToResult(hasData, inverseRecord, id,
                                     SnapshotRef(Len(snapshots) + 1))
           created == IF result = SnapshotRef(Len(snapshots) + 1)
                      THEN <<createSnapshot(inverseRecord)>> ELSE <<>>
       IN IF id
          THEN Return([this EXCEPT !._belongsToIds = Put(@, keyName, result)],
                      result, created, FALSE)
          ELSE Return([this EXCEPT !._belongsToRelationships = Put(@, keyName, result)],
                      result, created, FALSE)

(***************************************************************************)
(* Snapshot.prototype.hasMany.                                             *)
(***************************************************************************)
\* variant of PushedMembers: every member is pushed
PushedAll(members) == members

\* members.forEach(...): the members pushed, in relationship order
PushedMembers(members) == SelectSeq(members, LAMBDA member : ~liveDeleted[member])

\* the results computed from hasData and members; the n-th member pushed in
\* full mode is the Snapshot constructed n-th after the first existing ones
hasManyResults(hasData, members, ids, first) ==
  IF hasData
  THEN IF ids
       THEN Array([n \in 1..Len(PushedMembers(members)) |->
                     liveId[PushedMembers(members)[n]]])
       ELSE Array([n \in 1..Len(PushedMembers(members)) |-> SnapshotRef(first + n)])
  ELSE undefined

hasMany(i, keyName, ids) ==
  LET this == snapshots[i]
      relationship == RelationshipsGet(this._internalModel, keyName)
  IN IF ids /\ In(keyName, this._hasManyIds)
     THEN Return(this, this._hasManyIds[keyName], <<>>, TRUE)
     ELSE IF ~ids /\ In(keyName, this._hasManyRelationships)
     THEN Return(this, this._hasManyRelationships[keyName], <<>>, TRUE)
     ELSE IF ~IsKind(relationship, "hasMany")
     THEN Throw(this)
     ELSE
       LET hasData == relationship.hasData
           members == relationship.members
           results == hasManyResults(hasData, members, ids, Len(snapshots))
           pushed == PushedMembers(members)
           created == IF hasData /\ ~ids
                      THEN [n \in 1..Len(pushed) |-> createSnapshot(pushed[n])]
                      ELSE <<>>
       IN IF ids
          THEN Return([this EXCEPT !._hasManyIds = Put(@, keyName, results)],
                      results, created, FALSE)
          ELSE Return([this EXCEPT !._hasManyRelationships = Put(@, keyName, results)],
                      results, created, FALSE)

(***************************************************************************)
(* Snapshot.prototype.get (deprecated).                                    *)
(***************************************************************************)
\* variant of get: every name but 'id' is read from the live record
getOfRecord(i, keyName) ==
  LET this == snapshots[i]
  IN IF keyName = "id" THEN Return(this, this.id, <<>>, FALSE)
     ELSE Return(this, GetRecord(this.record, keyName), <<>>, FALSE)

get(i, keyName) ==
  LET this == snapshots[i]
      relationship == RelationshipsGet(this._internalModel, keyName)
  IN IF keyName = "id" THEN Return(this, this.id, <<>>, FALSE)
     ELSE IF In(keyName, this._attributes) THEN attr(i, keyName)
     ELSE IF IsKind(relationship, "belongsTo") THEN belongsTo(i, keyName, FALSE)
     ELSE IF IsKind(relationship, "hasMany") THEN hasMany(i, keyName, FALSE)
     ELSE Return(this, GetRecord(this.record, keyName), <<>>, FALSE)

\* this.get(keyName)
unknownProperty(i, keyName) == get(i, keyName)

(***************************************************************************)
(* Snapshot.prototype.eachAttribute, eachRelationship: the record's own    *)
(* iteration; the result is the set of names the callback is called with.  *)
(***************************************************************************)
Names(set) == [t |-> "names", v |-> set]

eachAttribute(i) ==
  LET this == snapshots[i]
  IN Return(this, Names(attributeNames(typeOf(this.record))), <<>>, FALSE)

eachRelationship(i) ==
  LET this == snapshots[i]
  IN Return(this, Names(DOMAIN relationshipsByName(typeOf(this.record))), <<>>, FALSE)

(***************************************************************************)
(* Actions of the live record graph.  Execution is single-threaded: the    *)
(* live graph changes between the calls of the Snapshot's caller, and each *)
(* change counts as one mutation.                                          *)
(***************************************************************************)
Idle == call.op = "none"

Mutate ==
  /\ Idle
  /\ mutations < MaxMutations
  /\ mutations' = mutations + 1
  /\ UNCHANGED <<snapshots, resolvedFrom, call, callerObject, callerPairs>>

\* record.set(a, v)
SetAttribute(r, a, v) ==
  /\ a \in attributeNames(typeOf(r))
  /\ v # GetRecord(r, a)
  /\ liveChanged' = [liveChanged EXCEPT ![r] = Put(@, a, v)]
  /\ Mutate
  /\ UNCHANGED <<liveId, liveDeleted, liveData, liveRelationships>>

\* record.rollbackAttributes()
RollbackAttributes(r) ==
  /\ DOMAIN liveChanged[r] # {}
  /\ liveChanged' = [liveChanged EXCEPT ![r] = EmptyObject]
  /\ Mutate
  /\ UNCHANGED <<liveId, liveDeleted, liveData, liveRelationships>>

\* a save completes and assigns the id of a new record
AssignId(r) ==
  /\ liveId[r] = null
  /\ liveId' = [liveId EXCEPT ![r] = Id(r)]
  /\ Mutate
  /\ UNCHANGED <<liveDeleted, liveData, liveChanged, liveRelationships>>

\* record.deleteRecord()
DeleteRecord(r) ==
  /\ ~liveDeleted[r]
  /\ liveDeleted' = [liveDeleted EXCEPT ![r] = TRUE]
  /\ Mutate
  /\ UNCHANGED <<liveId, liveData, liveChanged, liveRelationships>>

\* the contents of a relationship are loaded
SetHasData(r, keyName) ==
  /\ keyName \in DOMAIN relationshipsByName(typeOf(r))
  /\ ~liveRelationships[r][keyName].hasData
  /\ liveRelationships' = [liveRelationships EXCEPT ![r][keyName].hasData = TRUE]
  /\ Mutate
  /\ UNCHANGED <<liveId, liveDeleted, liveData, liveChanged>>

\* the related record of a belongsTo is replaced or removed
SetInverseRecord(r, keyName, target) ==
  /\ keyName \in DOMAIN relationshipsByName(typeOf(r))
  /\ relationshipsByName(typeOf(r))[keyName] = "belongsTo"
  /\ liveRelationships[r][keyName].inverseRecord # target
  /\ liveRelationships' = [liveRelationships EXCEPT ![r][keyName].inverseRecord = target]
  /\ Mutate
  /\ UNCHANGED <<liveId, liveDeleted, liveData, liveChanged>>

\* a member is added at the end of a hasMany
AddMember(r, keyName, member) ==
  /\ keyName \in DOMAIN relationshipsByName(typeOf(r))
  /\ relationshipsByName(typeOf(r))[keyName] = "hasMany"
  /\ member \notin Related(r, keyName)
  /\ liveRelationships' = [liveRelationships EXCEPT ![r][keyName].members = Append(@, member)]
  /\ Mutate
  /\ UNCHANGED <<liveId, liveDeleted, liveData, liveChanged>>

\* a member is removed from a hasMany
RemoveMember(r, keyName, member) ==
  /\ keyName \in DOMAIN relationshipsByName(typeOf(r))
  /\ relationshipsByName(typeOf(r))[keyName] = "hasMany"
  /\ member \in Related(r, keyName)
  /\ liveRelationships' = [liveRelationships EXCEPT ![r][keyName].members =
                             SelectSeq(@, LAMBDA m : m # member)]
  /\ Mutate
  /\ UNCHANGED <<liveId, liveDeleted, liveData, liveChanged>>

(***************************************************************************)
(* Actions of the Snapshot's callers.                                      *)
(***************************************************************************)
\* the store takes the Snapshot of record r that it hands to an adapter; all
\* other Snapshots are the children this one constructs
CreateSnapshot(r) ==
  /\ Idle
  /\ Len(snapshots) = 0
  /\ snapshots' = Append(snapshots, createSnapshot(r))
  /\ resolvedFrom' = Append(resolvedFrom, EmptyObject)
  /\ call' = [op |-> "createSnapshot", snapshot |-> Len(snapshots) + 1, threw |-> FALSE]
  /\ callerObject' = EmptyObject
  /\ callerPairs' = EmptyObject
  /\ UNCHANGED <<live, mutations>>

\* variant of Finish: resolving a relationship marks it as loaded on the record
FinishLoading(op, i, keyName, mode, outcome) ==
  /\ Idle
  /\ Len(snapshots) + Len(outcome.created) <= MaxSnapshots
  /\ snapshots' = [snapshots EXCEPT ![i] = outcome.this] \o outcome.created
  /\ resolvedFrom' =
       [resolvedFrom EXCEPT ![i] =
          IF outcome.this = snapshots[i] THEN @
          ELSE Put(@, <<keyName, mode>>, Observed(snapshots[i]._internalModel, keyName))]
       \o [n \in 1..Len(outcome.created) |-> EmptyObject]
  /\ call' = [op |-> op, snapshot |-> i, keyName |-> keyName, mode |-> mode,
              threw |-> outcome.threw, result |-> outcome.result, cached |-> outcome.cached]
  /\ callerObject' = EmptyObject
  /\ callerPairs' = EmptyObject
  /\ liveRelationships' =
       IF outcome.this = snapshots[i] THEN liveRelationships
       ELSE [liveRelationships EXCEPT ![snapshots[i]._internalModel][keyName].hasData = TRUE]
  /\ UNCHANGED <<liveId, liveDeleted, liveData, liveChanged, mutations>>

\* a call that returns a value or throws; mode is the id/ids option
Finish(op, i, keyName, mode, outcome) ==
  /\ Idle
  /\ Len(snapshots) + Len(outcome.created) <= MaxSnapshots
  /\ snapshots' = [snapshots EXCEPT ![i] = outcome.this] \o outcome.created
  /\ resolvedFrom' =
       [resolvedFrom EXCEPT ![i] =
          IF outcome.this = snapshots[i] THEN @
          ELSE Put(@, <<keyName, mode>>, Observed(snapshots[i]._internalModel, keyName))]
       \o [n \in 1..Len(outcome.created) |-> EmptyObject]
  /\ call' = [op |-> op, snapshot |-> i, keyName |-> keyName, mode |-> mode,
              threw |-> outcome.threw, result |-> outcome.result, cached |-> outcome.cached]
  /\ callerObject' = EmptyObject
  /\ callerPairs' = EmptyObject
  /\ UNCHANGED <<live, mutations>>

Attr(i, keyName) ==
  /\ i \in DOMAIN snapshots
  /\ Finish("attr", i, keyName, FALSE, attr(i, keyName))

BelongsTo(i, keyName, id) ==
  /\ i \in DOMAIN snapshots
  /\ Finish("belongsTo", i, keyName, id, belongsTo(i, keyName, id))

HasMany(i, keyName, ids) ==
  /\ i \in DOMAIN snapshots
  /\ Finish("hasMany", i, keyName, ids, hasMany(i, keyName, ids))

Get(i, keyName) ==
  /\ i \in DOMAIN snapshots
  /\ Finish("get", i, keyName, FALSE, get(i, keyName))

UnknownProperty(i, keyName) ==
  /\ i \in DOMAIN snapshots
  /\ Finish("unknownProperty", i, keyName, FALSE, unknownProperty(i, keyName))

EachAttribute(i) ==
  /\ i \in DOMAIN snapshots
  /\ Finish("eachAttribute", i, "", FALSE, eachAttribute(i))

EachRelationship(i) ==
  /\ i \in DOMAIN snapshots
  /\ Finish("eachRelationship", i, "", FALSE, eachRelationship(i))

Attributes(i) ==
  /\ Idle
  /\ i \in DOMAIN snapshots
  /\ call' = [op |-> "attributes", snapshot |-> i, threw |-> FALSE,
              result |-> attributes(i).ref]
  /\ callerObject' = attributes(i).object
  /\ callerPairs' = EmptyObject
  /\ UNCHANGED <<live, mutations, snapshots, resolvedFrom>>

ChangedAttributes(i) ==
  /\ Idle
  /\ i \in DOMAIN snapshots
  /\ call' = [op |-> "changedAttributes", snapshot |-> i, threw |-> FALSE,
              result |-> changedAttributes(i).ref]
  /\ callerObject' = changedAttributes(i).object
  /\ callerPairs' = changedAttributes(i).pairs
  /\ UNCHANGED <<live, mutations, snapshots, resolvedFrom>>

\* the caller writes key k of the object the latest attributes() or
\* changedAttributes() call returned; the write goes to the object referenced
CallerPut(k) ==
  /\ call.op \in {"attributes", "changedAttributes"}
  /\ IF call.result = LocalRef
     THEN /\ callerObject' = Put(callerObject, k, CallerValue)
          /\ UNCHANGED snapshots
     ELSE /\ snapshots' = [snapshots EXCEPT ![call.result.v]._attributes =
                             Put(@, k, CallerValue)]
          /\ UNCHANGED callerObject
  /\ UNCHANGED <<live, mutations, resolvedFrom, call, callerPairs>>

\* the caller deletes key k of the returned object
CallerDelete(k) ==
  /\ call.op \in {"attributes", "changedAttributes"}
  /\ IF call.result = LocalRef
     THEN /\ k \in DOMAIN callerObject
          /\ callerObject' = Delete(callerObject, k)
          /\ UNCHANGED snapshots
     ELSE /\ k \in DOMAIN snapshots[call.result.v]._attributes
          /\ snapshots' = [snapshots EXCEPT ![call.result.v]._attributes = Delete(@, k)]
          /\ UNCHANGED callerObject
  /\ UNCHANGED <<live, mutations, resolvedFrom, call, callerPairs>>

\* the caller overwrites element n of the [old, new] array under key k of the
\* object the latest changedAttributes() call returned
CallerSetElement(k, n) ==
  /\ call.op = "changedAttributes"
  /\ k \in DOMAIN callerObject
  /\ callerObject[k].t = "pair"
  /\ IF callerObject[k].v = 0
     THEN /\ callerPairs[k][n] # CallerValue
          /\ callerPairs' = [callerPairs EXCEPT ![k][n] = CallerValue]
          /\ UNCHANGED snapshots
     ELSE /\ snapshots[callerObject[k].v]._changedAttributes[k][n] # CallerValue
          /\ snapshots' = [snapshots EXCEPT ![callerObject[k].v]._changedAttributes[k][n] =
                             CallerValue]
          /\ UNCHANGED callerPairs
  /\ UNCHANGED <<live, mutations, resolvedFrom, call, callerObject>>

\* the caller is done with what the latest call returned or threw
Continue ==
  /\ ~Idle
  /\ call' = NoCall
  /\ callerObject' = EmptyObject
  /\ callerPairs' = EmptyObject
  /\ UNCHANGED <<live, mutations, snapshots, resolvedFrom>>

(***************************************************************************)
(* Specifications.                                                         *)
(***************************************************************************)
Init ==
  /\ InitLive
  /\ snapshots = <<>>
  /\ resolvedFrom = <<>>
  /\ call = NoCall
  /\ callerObject = EmptyObject
  /\ callerPairs = EmptyObject

\* the Snapshot the store constructed is the first; the others are its children
Roots == {1}

AttributeMutation ==
  \/ \E r \in Records, a \in {"title", "body"}, v \in AttributeValues : SetAttribute(r, a, v)
  \/ \E r \in Records : RollbackAttributes(r)

IdentityMutation ==
  \/ \E r \in Records : AssignId(r)
  \/ \E r \in Records \ {1} : DeleteRecord(r)

\* the relationships of the post change; the other records are what they relate to
RelationshipMutation ==
  \/ \E k \in {"author", "comments"} : SetHasData(1, k)
  \/ \E target \in (Records \ {1}) \cup {None} : SetInverseRecord(1, "author", target)
  \/ \E member \in Records \ {1} : AddMember(1, "comments", member)
  \/ \E member \in Records \ {1} : RemoveMember(1, "comments", member)

AttributeCall ==
  \/ \E i \in Roots, k \in KeyNames : Attr(i, k)
  \/ \E i \in Roots : Attributes(i)
  \/ \E i \in Roots : ChangedAttributes(i)
  \/ \E k \in CallerKeys : CallerPut(k)
  \/ \E k \in CallerKeys : CallerDelete(k)
  \/ \E k \in CallerKeys, n \in 1..2 : CallerSetElement(k, n)

RelationshipCall ==
  \/ \E i \in Roots, k \in RelationshipKeys, id \in BOOLEAN : BelongsTo(i, k, id)
  \/ \E i \in Roots, k \in RelationshipKeys, ids \in BOOLEAN : HasMany(i, k, ids)

\* Attributes: the live attributes and ids change, the relationships stay as loaded.
\* Relationships are resolved in identifier-only mode by belongsTo and
\* hasMany and in full mode by get.
NextAttributes ==
  \/ \E r \in Records : CreateSnapshot(r)
  \/ AttributeMutation
  \/ AttributeCall
  \/ \E i \in Roots, k \in {"author", "comments"} : BelongsTo(i, k, TRUE)
  \/ \E i \in Roots, k \in {"author", "comments"} : HasMany(i, k, TRUE)
  \/ \E i \in Roots, k \in KeyNames : Get(i, k)
  \/ \E r \in Records : AssignId(r)
  \/ Continue

SpecAttributes == Init /\ [][NextAttributes]_vars

\* Relationships: the live relationships, ids and deleted flags change, the
\* attributes stay as loaded.
NextRelationships ==
  \/ \E r \in Records : CreateSnapshot(r)
  \/ IdentityMutation
  \/ RelationshipMutation
  \/ RelationshipCall
  \/ Continue

SpecRelationships == Init /\ [][NextRelationships]_vars

\* Snapshot: every operation of the Snapshot, on the root and on its children,
\* before and after a single change of the post's title, of an id or deleted
\* flag, or of one of the post's relationships.
SnapshotCall ==
  \/ \E i \in DOMAIN snapshots, k \in KeyNames : Attr(i, k)
  \/ \E i \in DOMAIN snapshots, k \in KeyNames : Get(i, k)
  \/ \E i \in DOMAIN snapshots, k \in KeyNames : UnknownProperty(i, k)
  \/ \E i \in DOMAIN snapshots, k \in RelationshipKeys, id \in BOOLEAN : BelongsTo(i, k, id)
  \/ \E i \in DOMAIN snapshots, k \in RelationshipKeys, ids \in BOOLEAN : HasMany(i, k, ids)
  \/ \E i \in DOMAIN snapshots : EachAttribute(i)
  \/ \E i \in DOMAIN snapshots : EachRelationship(i)
  \/ \E i \in DOMAIN snapshots : Attributes(i)
  \/ \E i \in DOMAIN snapshots : ChangedAttributes(i)

NextSnapshot ==
  \/ \E r \in Records : CreateSnapshot(r)
  \/ mutations = 0 /\ \E v \in AttributeValues : SetAttribute(1, "title", v)
  \/ mutations = 0 /\ IdentityMutation
  \/ mutations = 0 /\ RelationshipMutation
  \/ SnapshotCall
  \/ Continue

SpecSnapshot == Init /\ [][NextSnapshot]_vars

(***************************************************************************)
(* Properties.                                                             *)
(***************************************************************************)
\* the attribute names the schema of Snapshot i's record declares
Declared(i) == attributeNames(typeOf(snapshots[i]._internalModel))

\* the Snapshots a step constructs
Constructed == (DOMAIN snapshots') \ (DOMAIN snapshots)

\* C1: attr(A) of a Snapshot returns, for every declared attribute A, the
\* value the live record held for A when the Snapshot was constructed: a
\* Snapshot a step constructs answers with the record's value at that step,
\* and no step (live mutation, Snapshot operation, caller's write) changes
\* the answer of an existing Snapshot.
C1_AttrReturnsConstructionValue ==
  [][ /\ \A i \in DOMAIN snapshots : \A a \in Declared(i) :
           /\ ~attr(i, a)'.threw
           /\ attr(i, a)'.result = attr(i, a).result
      /\ \A i \in Constructed : \A a \in Declared(i)' :
           /\ ~attr(i, a)'.threw
           /\ attr(i, a)'.result = GetRecord(snapshots'[i].record, a) ]_vars

\* an attr call returned a value that the live record no longer holds
C1_Witness ==
  /\ call.op = "attr"
  /\ ~call.threw
  /\ call.result # GetRecord(snapshots[call.snapshot].record, call.keyName)

\* the contents of the object attributes() of Snapshot i returns
AttributesAnswer(i) ==
  LET returned == attributes(i)
  IN IF returned.ref = LocalRef THEN returned.object
     ELSE snapshots[returned.ref.v]._attributes

\* the contents of the object changedAttributes() of Snapshot i returns, each
\* pair read through its reference
ChangedAnswer(i) ==
  LET returned == changedAttributes(i)
  IN [k \in DOMAIN returned.object |->
        IF returned.object[k].v = 0 THEN returned.pairs[k]
        ELSE snapshots[returned.object[k].v]._changedAttributes[k]]

\* C6: attr(name) throws exactly when name is not an attribute name of the
\* record's schema (a relationship name, "id" or any other name throws; a
\* declared attribute whose value is undefined or null does not), and a
\* throwing call leaves the Snapshot as it was.
C6_AttrThrowsExactlyOnUndeclared ==
  /\ \A i \in DOMAIN snapshots : \A k \in KeyNames :
       /\ attr(i, k).threw <=> k \notin Declared(i)
       /\ attr(i, k).this = snapshots[i]
       /\ attr(i, k).created = <<>>
  /\ call.op = "attr" =>
       (call.threw <=> call.keyName \notin Declared(call.snapshot))

\* an attr call with a relationship name threw
C6_Witness ==
  /\ call.op = "attr"
  /\ call.threw
  /\ call.keyName \in DOMAIN relationshipsByName(snapshots[call.snapshot].type)

\* C8: attributes() and changedAttributes() return copies: no step, and in
\* particular no write of the caller to a returned object or to a returned
\* [old, new] array and no later change or rollback of the live attributes,
\* changes what attr, attributes and changedAttributes of a Snapshot return.
C8_ReturnedObjectsAreCopies ==
  [][ \A i \in DOMAIN snapshots :
        /\ AttributesAnswer(i)' = AttributesAnswer(i)
        /\ ChangedAnswer(i)' = ChangedAnswer(i)
        /\ \A k \in Declared(i) : attr(i, k)'.result = attr(i, k).result ]_vars

\* the caller overwrote an element of a pair that changedAttributes() returned
C8_Witness ==
  /\ call.op = "changedAttributes"
  /\ \E k \in DOMAIN callerObject :
       /\ callerObject[k].t = "pair"
       /\ callerPairs[k] # snapshots[call.snapshot]._changedAttributes[k]

\* C9: for every key k of changedAttributes(), k is a declared attribute and
\* the second element of the pair equals attr(k); at construction the keys
\* are the attributes changed on the live record and the first element is
\* the value before the change.
C9_ChangedAgreesWithAttr ==
  [][ /\ \A i \in DOMAIN snapshots' : \A k \in DOMAIN ChangedAnswer(i)' :
           /\ k \in Declared(i)'
           /\ ChangedAnswer(i)'[k][2] = attr(i, k)'.result
      /\ \A i \in Constructed :
           /\ DOMAIN ChangedAnswer(i)' = DOMAIN liveChanged[snapshots'[i].record]
           /\ \A k \in DOMAIN ChangedAnswer(i)' :
                ChangedAnswer(i)'[k][1] = liveData[snapshots'[i].record][k] ]_vars

\* changedAttributes() was called on a Snapshot taken of a changed record
C9_Witness ==
  /\ call.op = "changedAttributes"
  /\ DOMAIN snapshots[call.snapshot]._changedAttributes # {}
  /\ DOMAIN snapshots[call.snapshot]._changedAttributes # Declared(call.snapshot)

\* the relationship cache of Snapshot i that op uses in the given mode
Cache(i, op, mode) ==
  IF op = "belongsTo"
  THEN IF mode THEN snapshots[i]._belongsToIds ELSE snapshots[i]._belongsToRelationships
  ELSE IF mode THEN snapshots[i]._hasManyIds ELSE snapshots[i]._hasManyRelationships

\* what the call op(k, mode) on Snapshot i does in the current state
Outcome(i, op, k, mode) ==
  IF op = "belongsTo" THEN belongsTo(i, k, mode) ELSE hasMany(i, k, mode)

\* C2: once belongsTo(R, M) or hasMany(R, M) has returned a value, every
\* later call with the same R and M on the same Snapshot returns that value,
\* whatever happens to the live record in between: right after a call that
\* returned v, the same call answers v from the cache, and no step changes
\* the answer of a call that is answered from the cache.  (While the caller
\* holds a result no Snapshot changes, so the steps taken between calls decide.)
C2_ResolvedOnce ==
  [][ IF Idle
      THEN \A i \in DOMAIN snapshots, op \in {"belongsTo", "hasMany"},
              k \in RelationshipKeys, mode \in BOOLEAN :
             /\ ( /\ call'.op = op /\ call'.snapshot = i /\ call'.keyName = k
                  /\ call'.mode = mode /\ ~call'.threw )
                => /\ Outcome(i, op, k, mode)'.cached
                   /\ Outcome(i, op, k, mode)'.result = call'.result
             /\ Outcome(i, op, k, mode).cached
                => /\ Outcome(i, op, k, mode)'.cached
                   /\ Outcome(i, op, k, mode)'.result = Outcome(i, op, k, mode).result
      ELSE snapshots' = snapshots ]_vars

\* a call answered UNKNOWN from the cache after the relationship was loaded
C2_Witness ==
  /\ call.op = "belongsTo"
  /\ call.cached
  /\ call.result = undefined
  /\ liveRelationships[snapshots[call.snapshot]._internalModel][call.keyName].hasData

\* a Snapshot just constructed: no relationship resolved
Fresh(j) ==
  /\ snapshots[j]._belongsToRelationships = EmptyObject
  /\ snapshots[j]._belongsToIds = EmptyObject
  /\ snapshots[j]._hasManyRelationships = EmptyObject
  /\ snapshots[j]._hasManyIds = EmptyObject

\* C3: the first belongsTo(R, M) returns, from the live state at the call:
\* UNKNOWN when hasData is false; null when hasData is true and inverseRecord
\* is absent or deleted; otherwise the id of inverseRecord in identifier-only
\* mode and a newly constructed child Snapshot of inverseRecord in full mode.
C3_FirstBelongsTo ==
  (call.op = "belongsTo" /\ ~call.threw /\ ~call.cached) =>
    LET rel == liveRelationships[snapshots[call.snapshot]._internalModel][call.keyName]
        related == rel.inverseRecord
    IN /\ ~rel.hasData => call.result = undefined
       /\ (rel.hasData /\ (related = None \/ liveDeleted[related])) => call.result = null
       /\ (rel.hasData /\ related # None /\ ~liveDeleted[related] /\ call.mode)
            => call.result = liveId[related]
       /\ (rel.hasData /\ related # None /\ ~liveDeleted[related] /\ ~call.mode)
            => /\ call.result = SnapshotRef(Len(snapshots))
               /\ snapshots[Len(snapshots)]._internalModel = related
               /\ snapshots[Len(snapshots)].id = liveId[related]
               /\ Fresh(Len(snapshots))

\* a first belongsTo returned null for a related record that is deleted
C3_Witness ==
  /\ call.op = "belongsTo" /\ ~call.threw /\ ~call.cached
  /\ call.result = null
  /\ LET rel == liveRelationships[snapshots[call.snapshot]._internalModel][call.keyName]
     IN rel.hasData /\ rel.inverseRecord # None /\ liveDeleted[rel.inverseRecord]

\* the members of a relationship that are not deleted, in relationship order
Surviving(rel) == SelectSeq(rel.members, LAMBDA m : ~liveDeleted[m])

\* C4: the first hasMany(R, M) returns UNKNOWN when hasData is false, and
\* otherwise an array with one entry per member that is not deleted, in
\* relationship order: ids in identifier-only mode, newly constructed child
\* Snapshots in full mode.  With no surviving member it is the empty array,
\* which is not UNKNOWN.
C4_FirstHasMany ==
  (call.op = "hasMany" /\ ~call.threw /\ ~call.cached) =>
    LET rel == liveRelationships[snapshots[call.snapshot]._internalModel][call.keyName]
        n == Len(Surviving(rel))
    IN /\ ~rel.hasData => call.result = undefined
       /\ rel.hasData =>
            /\ call.result # undefined
            /\ call.result.t = "array"
            /\ Len(call.result.v) = n
            /\ call.mode => \A x \in 1..n : call.result.v[x] = liveId[Surviving(rel)[x]]
            /\ ~call.mode => \A x \in 1..n :
                 /\ call.result.v[x] = SnapshotRef(Len(snapshots) - n + x)
                 /\ snapshots[Len(snapshots) - n + x]._internalModel = Surviving(rel)[x]
                 /\ snapshots[Len(snapshots) - n + x].id = liveId[Surviving(rel)[x]]
                 /\ Fresh(Len(snapshots) - n + x)

\* a first hasMany left a deleted member out and kept another
C4_Witness ==
  /\ call.op = "hasMany" /\ ~call.threw /\ ~call.cached
  /\ call.result # undefined
  /\ Len(call.result.v) >= 1
  /\ Len(call.result.v) <
       Len(liveRelationships[snapshots[call.snapshot]._internalModel][call.keyName].members)

\* keyName is no relationship of the given kind on Snapshot i's record
WrongKind(i, keyName, kind) ==
  \/ keyName \notin DOMAIN relationshipsByName(snapshots[i].type)
  \/ relationshipsByName(snapshots[i].type)[keyName] # kind

\* C5: belongsTo(name, M) throws whenever name has no descriptor or its kind
\* is not belongsTo, and hasMany(name, M) whenever name has no descriptor or
\* its kind is not hasMany, in both modes and whenever a call can be made (so
\* also after the name was resolved through the other method); the throwing
\* call leaves the Snapshot as it was and constructs nothing.
C5_WrongKindThrows ==
  /\ Idle =>
       \A i \in DOMAIN snapshots, op \in {"belongsTo", "hasMany"},
          k \in KeyNames, mode \in BOOLEAN :
         WrongKind(i, k, op) =>
           /\ Outcome(i, op, k, mode).threw
           /\ Outcome(i, op, k, mode).this = snapshots[i]
           /\ Outcome(i, op, k, mode).created = <<>>
  /\ (call.op \in {"belongsTo", "hasMany"} /\ WrongKind(call.snapshot, call.keyName, call.op))
       => call.threw

\* belongsTo threw for a name that hasMany has resolved and cached
C5_Witness ==
  /\ call.op = "belongsTo"
  /\ call.threw
  /\ call.keyName \in DOMAIN snapshots[call.snapshot]._hasManyIds

\* an identifier-only belongsTo result and a full one show the same relationship
SameBelongsTo(identifier, full) ==
  \/ identifier = undefined /\ full = undefined
  \/ identifier = null /\ full = null
  \/ full.t = "snapshot" /\ identifier = snapshots[full.v].id

\* an identifier-only hasMany result and a full one show the same relationship
SameHasMany(identifiers, full) ==
  \/ identifiers = undefined /\ full = undefined
  \/ /\ identifiers.t = "array" /\ full.t = "array"
     /\ Len(identifiers.v) = Len(full.v)
     /\ \A n \in 1..Len(full.v) : identifiers.v[n] = snapshots[full.v[n].v].id

\* C7 as stated: whenever a relationship of a Snapshot is resolved in both
\* modes, in either order and with any live mutations between the two calls,
\* the identifier-only result and the full result show the same relationship.
C7_ModesAgreeAlways ==
  \A i \in DOMAIN snapshots :
    /\ \A k \in DOMAIN snapshots[i]._belongsToIds \cap DOMAIN snapshots[i]._belongsToRelationships :
         SameBelongsTo(snapshots[i]._belongsToIds[k], snapshots[i]._belongsToRelationships[k])
    /\ \A k \in DOMAIN snapshots[i]._hasManyIds \cap DOMAIN snapshots[i]._hasManyRelationships :
         SameHasMany(snapshots[i]._hasManyIds[k], snapshots[i]._hasManyRelationships[k])

\* the two first calls for relationship k of Snapshot i read the same live
\* relationship state: hasData, inverseRecord and members, and the deleted
\* flags and ids of the related records
SameObservation(i, k) == resolvedFrom[i][<<k, TRUE>>] = resolvedFrom[i][<<k, FALSE>>]

\* C7 amended: when the two first calls read the same live relationship
\* state, the identifier-only result and the full result show the same
\* relationship.
C7_ModesAgreeOnSameState ==
  \A i \in DOMAIN snapshots :
    /\ \A k \in DOMAIN snapshots[i]._belongsToIds \cap DOMAIN snapshots[i]._belongsToRelationships :
         SameObservation(i, k) =>
           SameBelongsTo(snapshots[i]._belongsToIds[k], snapshots[i]._belongsToRelationships[k])
    /\ \A k \in DOMAIN snapshots[i]._hasManyIds \cap DOMAIN snapshots[i]._hasManyRelationships :
         SameObservation(i, k) =>
           SameHasMany(snapshots[i]._hasManyIds[k], snapshots[i]._hasManyRelationships[k])

\* a belongsTo resolved in both modes from the same live state, after a
\* mutation, to a related record
C7_Witness ==
  \E i \in DOMAIN snapshots :
    \E k \in DOMAIN snapshots[i]._belongsToIds \cap DOMAIN snapshots[i]._belongsToRelationships :
      /\ SameObservation(i, k)
      /\ snapshots[i]._belongsToRelationships[k].t = "snapshot"
      /\ mutations > 0

\* C10: id, type and modelName of a Snapshot are those of its internal model
\* when it is constructed, and no step (Snapshot operation, caller's write,
\* live mutation such as the assignment of an id) changes them.
C10_IdentityIsFixed ==
  [][ /\ \A i \in DOMAIN snapshots :
           /\ snapshots'[i].id = snapshots[i].id
           /\ snapshots'[i].type = snapshots[i].type
           /\ snapshots'[i].modelName = snapshots[i].modelName
      /\ \A i \in Constructed :
           /\ snapshots'[i].id = liveId[snapshots'[i]._internalModel]
           /\ snapshots'[i].type = typeOf(snapshots'[i]._internalModel)
           /\ snapshots'[i].modelName = typeModelName(typeOf(snapshots'[i]._internalModel)) ]_vars

\* a Snapshot keeps the null id of a record that has been given an id since
C10_Witness ==
  \E i \in DOMAIN snapshots :
    /\ snapshots[i].id = null
    /\ liveId[snapshots[i]._internalModel] # null

\* the operations of a Snapshot
Operations ==
  {"createSnapshot", "attr", "attributes", "changedAttributes", "belongsTo",
   "hasMany", "get", "unknownProperty", "eachAttribute", "eachRelationship"}

\* C11: no Snapshot operation (construction, attr, attributes,
\* changedAttributes, belongsTo, hasMany, get, eachAttribute,
\* eachRelationship) changes the live record graph: a step in which an
\* operation is called leaves the attribute values, changed attributes,
\* deleted flags, ids, hasData flags, inverseRecord and members of every
\* record as they were.
C11_OperationsLeaveLiveGraph ==
  [][ (Idle /\ call'.op \in Operations) =>
        /\ liveData' = liveData
        /\ liveChanged' = liveChanged
        /\ liveDeleted' = liveDeleted
        /\ liveId' = liveId
        /\ liveRelationships' = liveRelationships ]_vars

\* a full-mode hasMany constructed child Snapshots of a changed live graph
C11_Witness ==
  /\ call.op = "hasMany"
  /\ ~call.threw /\ ~call.cached /\ ~call.mode
  /\ call.result # undefined
  /\ Len(call.result.v) > 0
  /\ mutations > 0

\* the call the step makes resolves with method op in the given mode on
\* Snapshot i: belongsTo or hasMany itself, or get and unknownProperty, which
\* call them in full mode
Resolves(i, op, mode) ==
  /\ Idle
  /\ \/ call'.op = op /\ call'.mode = mode
     \/ call'.op \in {"get", "unknownProperty"} /\ ~mode
  /\ call'.snapshot = i
  /\ ~call'.threw

\* C12: the four relationship caches of a Snapshot are independent and
\* write-once: no step removes an entry or replaces the value of an entry of
\* any cache, and a step adds an entry only to the cache of the method and
\* mode of the successful call it makes, and there only the entry of the
\* relationship name of the call; in particular resolving in one mode adds
\* nothing to the cache of the other mode.
C12_CachesWriteOnce ==
  [][ \A i \in DOMAIN snapshots, op \in {"belongsTo", "hasMany"}, mode \in BOOLEAN :
        /\ \A k \in DOMAIN Cache(i, op, mode) :
             /\ k \in DOMAIN Cache(i, op, mode)'
             /\ Cache(i, op, mode)'[k] = Cache(i, op, mode)[k]
        /\ (DOMAIN Cache(i, op, mode)') \ (DOMAIN Cache(i, op, mode)) \subseteq
             IF Resolves(i, op, mode) THEN {call'.keyName} ELSE {} ]_vars

\* belongsTo resolved a relationship in identifier-only mode that is not
\* resolved in full mode, on a Snapshot with a hasMany entry already cached
C12_Witness ==
  /\ call.op = "belongsTo"
  /\ call.mode /\ ~call.cached /\ ~call.threw
  /\ call.keyName \notin DOMAIN snapshots[call.snapshot]._belongsToRelationships
  /\ snapshots[call.snapshot]._hasManyRelationships # EmptyObject

\* the records relationship k of Snapshot i's record points at directly
Direct(i, k) ==
  IF k \in DOMAIN relationshipsByName(snapshots[i].type)
  THEN Related(snapshots[i]._internalModel, k)
  ELSE {}

\* C13: constructing a Snapshot resolves no relationship: every Snapshot a
\* step constructs, the root and each child, has four empty caches, and the
\* construction of the root constructs no other Snapshot.  One call
\* constructs child Snapshots only in full mode and only of records the
\* relationship points at directly that are not deleted, one each; no other
\* operation constructs a Snapshot.  Each call is one step also on a cyclic
\* graph, where a child's relationship leads back to the root's record.
C13_NoEagerResolution ==
  [][ /\ \A j \in Constructed : Fresh(j)'
      /\ (Idle /\ call'.op = "createSnapshot") => Constructed = {call'.snapshot}
      /\ (Idle /\ call'.op \in Operations \ {"createSnapshot"}) =>
           /\ Constructed # {} =>
                /\ call'.op \in {"belongsTo", "hasMany", "get", "unknownProperty"}
                /\ ~call'.mode /\ ~call'.threw /\ ~call'.cached
                /\ \A j \in Constructed :
                     /\ snapshots'[j]._internalModel \in Direct(call'.snapshot, call'.keyName)
                     /\ ~liveDeleted[snapshots'[j]._internalModel]
                     /\ \A n \in Constructed :
                          snapshots'[n]._internalModel = snapshots'[j]._internalModel => n = j
      /\ (~Idle \/ call'.op \notin Operations) => Constructed = {} ]_vars

\* on the cyclic graph a full-mode belongsTo on a child Snapshot constructed
\* a Snapshot of the record of the root
C13_Witness ==
  /\ call.op = "belongsTo"
  /\ ~call.threw /\ ~call.cached /\ ~call.mode
  /\ call.snapshot > 1
  /\ call.result = SnapshotRef(Len(snapshots))
  /\ snapshots[Len(snapshots)]._internalModel = snapshots[1]._internalModel
  /\ Fresh(Len(snapshots))

\* C14: in both modes null and UNKNOWN are faithful markers of the
\* relationship state at first resolution: a first belongsTo(R, M) returns
\* null only if hasData was true and the related record was absent or
\* deleted, and UNKNOWN only if hasData was false; so a relationship that is
\* loaded and set to a present record that is not deleted never resolves to
\* null or UNKNOWN, also when that record has no id yet.
C14_NullAndUnknownAreFaithful ==
  (call.op = "belongsTo" /\ ~call.threw /\ ~call.cached) =>
    LET rel == liveRelationships[snapshots[call.snapshot]._internalModel][call.keyName]
        related == rel.inverseRecord
    IN /\ call.result = null => (rel.hasData /\ (related = None \/ liveDeleted[related]))
       /\ call.result = undefined => ~rel.hasData

\* a first belongsTo in identifier-only mode returned null for a loaded
\* relationship set to a record that is not deleted and has no id yet
C14_Witness ==
  /\ call.op = "belongsTo"
  /\ ~call.threw /\ ~call.cached /\ call.mode
  /\ call.result = null
  /\ LET rel == liveRelationships[snapshots[call.snapshot]._internalModel][call.keyName]
     IN /\ rel.hasData
        /\ rel.inverseRecord # None
        /\ ~liveDeleted[rel.inverseRecord]
        /\ liveId[rel.inverseRecord] = null

\* the kind of relationship k in the schema of Snapshot i's record, "" if none
KindOf(i, k) ==
  IF k \in DOMAIN relationshipsByName(snapshots[i].type)
  THEN relationshipsByName(snapshots[i].type)[k]
  ELSE ""

\* C15: get(keyName), and unknownProperty which calls it, never throws and
\* answers in a fixed order: the Snapshot's id for 'id'; else what
\* attr(keyName) returns for a declared attribute; else what the full-mode
\* belongsTo(keyName) or hasMany(keyName) returns for a relationship of that
\* kind, with the effect of that call on the Snapshot (the entry of the
\* full-mode cache is reused if present and filled if not, the
\* identifier-only caches stay as they are); and only otherwise the property
\* of the live record at the call.
C15_GetDispatch ==
  [][ (Idle /\ call'.op \in {"get", "unknownProperty"}) =>
        LET i == call'.snapshot
            k == call'.keyName
        IN /\ ~call'.threw
           /\ snapshots'[i]._belongsToIds = snapshots[i]._belongsToIds
           /\ snapshots'[i]._hasManyIds = snapshots[i]._hasManyIds
           /\ IF k = "id"
              THEN call'.result = snapshots[i].id /\ snapshots' = snapshots
              ELSE IF k \in Declared(i)
              THEN call'.result = attr(i, k).result /\ snapshots' = snapshots
              ELSE IF KindOf(i, k) \in {"belongsTo", "hasMany"}
              THEN LET typed == Outcome(i, KindOf(i, k), k, FALSE)
                       cache == Cache(i, KindOf(i, k), FALSE)
                   IN /\ ~typed.threw
                      /\ call'.result = typed.result
                      /\ snapshots' = [snapshots EXCEPT ![i] = typed.this] \o typed.created
                      /\ k \in DOMAIN cache => (call'.result = cache[k] /\ snapshots' = snapshots)
                      /\ k \in DOMAIN (IF KindOf(i, k) = "belongsTo"
                                       THEN snapshots'[i]._belongsToRelationships
                                       ELSE snapshots'[i]._hasManyRelationships)
              ELSE call'.result = GetRecord(snapshots[i].record, k) /\ snapshots' = snapshots
    ]_vars

\* get answered UNKNOWN from the full-mode cache for a relationship loaded
\* since it was resolved
C15_Witness ==
  /\ call.op = "get"
  /\ call.keyName = "author"
  /\ call.cached
  /\ call.result = undefined
  /\ liveRelationships[snapshots[call.snapshot]._internalModel]["author"].hasData
  /\ "author" \notin DOMAIN snapshots[call.snapshot]._belongsToIds

====
